---- MODULE Spec2Model ----
(***************************************************************************)
(* Offline-first task sync engine: the task store, the sync queue, the     *)
(* CRUD handlers of TaskService and the orchestration of SyncService       *)
(* (sync, processBatch, resolveConflict, updateSyncStatus,                 *)
(* handleSyncError) behind the POST /sync route.                           *)
(*                                                                         *)
(* Every handler is an async function: it runs atomically from one await   *)
(* to the next, and other handlers may run in between.  A handler's pc     *)
(* names the awaited database statement or HTTP call that is pending.      *)
(***************************************************************************)
EXTENDS Integers, Sequences, FiniteSets, TLC

\* ---------------------------------------------------------------- bounds
MaxTasks == 2        \* tasks ever created
MaxItems == 3        \* sync_queue rows ever inserted
MaxTime == 1         \* the clock runs 0..MaxTime
MaxSyncs == 2        \* POST /sync requests ever accepted
MaxRetryLimit == 2   \* SYNC_RETRY_ATTEMPTS ranges over 1..MaxRetryLimit
MaxBatchSize == 2    \* SYNC_BATCH_SIZE ranges over 1..MaxBatchSize
NumWorkers == 2      \* POST /sync requests that may be in flight together
MaxRaceSyncs == 3    \* POST /sync requests ever accepted while the remote is down

TaskIds == 1..MaxTasks
ItemIds == 1..MaxItems
Workers == 1..NumWorkers
Operations == {"create", "update", "delete"}
Statuses == {"success", "conflict", "error"}

NetworkError == "Network Error"
ItemRejected == "Rejected"
UpdateFailed == "Failed to update task"

VARIABLES
    retryLimit,   \* process.env.SYNC_RETRY_ATTEMPTS
    batchSize,    \* process.env.SYNC_BATCH_SIZE
    now,          \* the clock read by new Date()
    tasks,        \* table tasks: id -> row
    queue,        \* table sync_queue, rows in insertion order
    enq,          \* enq[i]: task_id of the i-th INSERT INTO sync_queue ever issued,
                  \* 0 when that INSERT failed
    cr,           \* the CRUD request in flight
    sy,           \* sy[w]: the POST /sync request w in flight
    cycles,       \* POST /sync requests accepted so far
    att,          \* att[i]: transport requests that carried queue item i
    applied       \* queue items the remote has reported 'success' for

vars == <<retryLimit, batchSize, now, tasks, queue, enq, cr, sy, cycles, att, applied>>

\* --------------------------------------------------------------- helpers
Min(a, b) == IF a <= b THEN a ELSE b

Range(s) == {s[i] : i \in DOMAIN s}

\* Rows of the queue with the given id / of the given task.
Rows(q, id) == {i \in DOMAIN q : q[i].id = id}
InQueue(q, id) == Rows(q, id) # {}
RowOf(q, id) == q[CHOOSE i \in DOMAIN q : q[i].id = id]
TaskRows(q, t) == SelectSeq(q, LAMBDA r : r.task_id = t)

\* ORDER BY created_at ASC: rows with equal created_at keep insertion order.
RECURSIVE InsertSorted(_, _)
InsertSorted(s, r) ==
    IF s = <<>> THEN <<r>>
    ELSE IF s[Len(s)].created_at <= r.created_at THEN Append(s, r)
    ELSE Append(InsertSorted(SubSeq(s, 1, Len(s) - 1), r), s[Len(s)])

RECURSIVE OrderByCreatedAt(_)
OrderByCreatedAt(s) ==
    IF s = <<>> THEN <<>>
    ELSE InsertSorted(OrderByCreatedAt(SubSeq(s, 1, Len(s) - 1)), s[Len(s)])

\* The SELECT without its WHERE clause.
DueItemsNoLimit(q, limit) == OrderByCreatedAt(q)

\* SELECT * FROM sync_queue WHERE retry_count < ? ORDER BY created_at ASC
DueItems(q, limit) ==
    OrderByCreatedAt(SelectSeq(q, LAMBDA r : r.retry_count < limit))

\* INSERT INTO sync_queue: a fresh id, retry_count 0, no last_error.
NewItem(id, t, op, at) ==
    [id |-> id, task_id |-> t, operation |-> op,
     retry_count |-> 0, last_error |-> "", created_at |-> at]

\* The INSERTs issued so far, after one more has failed (none is counted past
\* MaxItems).
Failed(e) == IF Len(e) < MaxItems THEN Append(e, 0) ELSE e

\* ------------------------------------------------------------ TaskService
NewTask(title, at) ==
    [title |-> title, updated_at |-> at, is_deleted |-> FALSE,
     sync_status |-> "pending"]

\* updateTask's guard: the row exists and is not soft-deleted.
Updatable(ts, id) == id \in DOMAIN ts /\ ~ts[id].is_deleted

\* updateTask's UPDATE: title from the updates (the row's own title when the
\* updates carry none), updated_at, sync_status pending.
UpdateRow(ts, id, title, at) ==
    [ts EXCEPT ![id] = [@ EXCEPT !.title = title, !.updated_at = at,
                                 !.sync_status = "pending"]]

\* deleteTask's UPDATE: soft delete.
DeleteRow(ts, id, at) ==
    [ts EXCEPT ![id] = [@ EXCEPT !.is_deleted = TRUE, !.updated_at = at,
                                 !.sync_status = "pending"]]

IdleCrud == [pc |-> "idle", op |-> "create", id |-> 1, at |-> 0]

\* ------------------------------------------------------------ SyncService
Batch(s) == SubSeq(s.items, s.bi, Min(s.bi + batchSize - 1, Len(s.items)))

NoTask == [title |-> "", updated_at |-> 0, is_deleted |-> FALSE,
           sync_status |-> "none"]

IdleSync ==
    [pc |-> "idle", items |-> <<>>, bi |-> 0, resp |-> <<>>, k |-> 0,
     synced |-> 0, failed |-> 0, errors |-> <<>>, calls |-> 0,
     local |-> NoTask, remote |-> NoTask, resolved |-> NoTask,
     phase |-> "", at |-> 0, err |-> ""]

\* One entry of processed_items for a queue item.
Result(item, status) ==
    [client_id |-> item.task_id, status |-> status,
     error |-> IF status = "error" THEN ItemRejected ELSE ""]

\* Least index >= k of s whose entry has the given status, Len(s) + 1 if none.
RECURSIVE NextWith(_, _, _)
NextWith(s, k, status) ==
    IF k > Len(s) THEN Len(s) + 1
    ELSE IF s[k].status = status THEN k
    ELSE NextWith(s, k + 1, status)

\* The entries of s in k..j-1, as entries of SyncResult.errors.
ErrorEntries(s, k, j) ==
    [i \in 1..(j - k) |-> [task_id |-> s[k + i - 1].client_id,
                           error |-> s[k + i - 1].error]]

\* sync with a catch that gives up: no batch is posted after a failed one.
NextBatchAbort(s) ==
    IF s.err = "" /\ s.bi + batchSize <= Len(s.items)
    THEN [s EXCEPT !.pc = "post", !.bi = s.bi + batchSize, !.resp = <<>>,
                   !.k = 0, !.err = ""]
    ELSE [s EXCEPT !.pc = "done", !.resp = <<>>, !.k = 0, !.err = ""]

\* sync with a batching loop that stops one item short of the end.
NextBatchOffByOne(s) ==
    IF s.bi + batchSize < Len(s.items)
    THEN [s EXCEPT !.pc = "post", !.bi = s.bi + batchSize, !.resp = <<>>,
                   !.k = 0, !.err = ""]
    ELSE [s EXCEPT !.pc = "done", !.resp = <<>>, !.k = 0, !.err = ""]

\* sync lines 37-46, 72: the next batch is posted, or the result is returned.
NextBatch(s) ==
    IF s.bi + batchSize <= Len(s.items)
    THEN [s EXCEPT !.pc = "post", !.bi = s.bi + batchSize, !.resp = <<>>,
                   !.k = 0, !.err = ""]
    ELSE [s EXCEPT !.pc = "done", !.resp = <<>>, !.k = 0, !.err = ""]

\* sync lines 50-58 from result k on: a result that is not 'success' is counted
\* as failed and pushed to errors; at the first 'success' updateSyncStatus is
\* awaited.
ContinueResults(s, k) ==
    LET j == NextWith(s.resp, k, "success")
        t == [s EXCEPT !.failed = @ + (j - k),
                       !.errors = @ \o ErrorEntries(s.resp, k, j)]
    IN  IF j <= Len(s.resp)
        THEN [t EXCEPT !.pc = "us_update", !.k = j]
        ELSE NextBatch(t)

\* processBatch lines 110-124 from result k on: at the first 'conflict' that
\* carries server_id and client_id resolveConflict is awaited; after the last
\* one the response is returned to sync.
ContinueConflicts(s, k) ==
    LET j == NextWith(s.resp, k, "conflict")
    IN  IF j <= Len(s.resp)
        THEN [s EXCEPT !.pc = "cf_get", !.k = j]
        ELSE ContinueResults([s EXCEPT !.local = NoTask, !.remote = NoTask,
                                       !.resolved = NoTask, !.phase = ""], 1)

\* sync lines 59-60: processBatch threw; the whole batch is counted as failed
\* and handleSyncError is awaited for its first item.
Catch(s, message) ==
    [s EXCEPT !.pc = "hse", !.k = 1, !.err = message,
              !.failed = @ + Len(Batch(s)),
              !.local = NoTask, !.remote = NoTask, !.resolved = NoTask,
              !.phase = ""]

\* resolveConflict with a tie going to the remote side.
LocalWinsStrictly(local, remote) == local.updated_at > remote.updated_at

\* resolveConflict with the comparison turned round.
LocalWinsInverted(local, remote) == local.updated_at <= remote.updated_at

\* resolveConflict lines 136-146: last write wins, the local side on a tie.
LocalWins(local, remote) == local.updated_at >= remote.updated_at

Resolve(local, remote) == IF LocalWins(local, remote) THEN local ELSE remote

\* handleSyncError with the limit tested by > in place of >=.
ExhaustedPastLimit(newCount, limit) == newCount > limit

\* handleSyncError line 177: the limit is reached.
Exhausted(newCount, limit) == newCount >= limit

\* handleSyncError: the task is marked 'error' once the limit is reached.
MarkError(ts, item, limit) ==
    IF Exhausted(item.retry_count + 1, limit) /\ item.task_id \in DOMAIN ts
    THEN [ts EXCEPT ![item.task_id].sync_status = "error"]
    ELSE ts

\* handleSyncError: UPDATE sync_queue SET retry_count = ?, last_error = ? WHERE id = ?
\* with the count of the row as sync read it.
RecordFailure(q, item, message) ==
    [i \in DOMAIN q |->
        IF q[i].id = item.id
        THEN [q[i] EXCEPT !.retry_count = item.retry_count + 1,
                          !.last_error = message]
        ELSE q[i]]

\* updateSyncStatus: UPDATE tasks SET sync_status = 'synced', ... WHERE id = ?
MarkSynced(ts, id) ==
    IF id \in DOMAIN ts
    THEN [ts EXCEPT ![id].sync_status = "synced"]
    ELSE ts

\* updateSyncStatus without its DELETE.
DeleteNothing(q, result) == q

\* updateSyncStatus: DELETE FROM sync_queue WHERE task_id = ?
DeleteSynced(q, result) == SelectSeq(q, LAMBDA r : r.task_id # result.client_id)

\* sync with a success flag that is set when anything was synced.
SyncResultAnySynced(s) ==
    IF s.items = <<>>
    THEN [success |-> TRUE, synced_items |-> 0, failed_items |-> 0,
          errors |-> <<>>]
    ELSE [success |-> s.synced > 0, synced_items |-> s.synced,
          failed_items |-> s.failed, errors |-> s.errors]

\* sync lines 33-35 and 72: the SyncResult returned.
SyncResult(s) ==
    IF s.items = <<>>
    THEN [success |-> TRUE, synced_items |-> 0, failed_items |-> 0,
          errors |-> <<>>]
    ELSE [success |-> s.failed = 0, synced_items |-> s.synced,
          failed_items |-> s.failed, errors |-> s.errors]

\* ------------------------------------------------------------------ Init
Init ==
    /\ retryLimit \in 1..MaxRetryLimit
    /\ batchSize \in 1..MaxBatchSize
    /\ now = 0
    /\ tasks = <<>>
    /\ queue = <<>>
    /\ enq = <<>>
    /\ cr = IdleCrud
    /\ sy = [w \in Workers |-> IdleSync]
    /\ cycles = 0
    /\ att = [i \in ItemIds |-> 0]
    /\ applied = {}

\* No request is being served.
Quiet == cr.pc = "idle" /\ \A w \in Workers : sy[w].pc = "idle"

\* --------------------------------------------------------- clock and CRUD
Tick ==
    /\ now < MaxTime
    /\ now' = now + 1
    /\ UNCHANGED <<retryLimit, batchSize, tasks, queue, enq, cr, sy, cycles, att, applied>>

\* createTask up to its INSERT INTO tasks; the INSERT INTO sync_queue is pending.
CreateTask ==
    /\ cr.pc = "idle"
    /\ Len(tasks) < MaxTasks
    /\ Len(enq) < MaxItems
    /\ tasks' = Append(tasks, NewTask("A", now))
    /\ cr' = [pc |-> "enqueue", op |-> "create", id |-> Len(tasks) + 1, at |-> now]
    /\ UNCHANGED <<retryLimit, batchSize, now, queue, enq, sy, cycles, att, applied>>

\* updateTask as a PUT request that carries no title, up to its UPDATE tasks.
UpdateTask(id) ==
    /\ cr.pc = "idle"
    /\ Len(enq) < MaxItems
    /\ Updatable(tasks, id)
    /\ tasks' = UpdateRow(tasks, id, tasks[id].title, now)
    /\ cr' = [pc |-> "enqueue", op |-> "update", id |-> id, at |-> now]
    /\ UNCHANGED <<retryLimit, batchSize, now, queue, enq, sy, cycles, att, applied>>

\* deleteTask up to its UPDATE tasks.
DeleteTask(id) ==
    /\ cr.pc = "idle"
    /\ Len(enq) < MaxItems
    /\ Updatable(tasks, id)
    /\ tasks' = DeleteRow(tasks, id, now)
    /\ cr' = [pc |-> "enqueue", op |-> "delete", id |-> id, at |-> now]
    /\ UNCHANGED <<retryLimit, batchSize, now, queue, enq, sy, cycles, att, applied>>

\* The CRUD request's INSERT INTO sync_queue succeeds.  createTask leaves
\* created_at to the column default, the time of the insert.
Enqueue ==
    /\ cr.pc = "enqueue"
    /\ Len(enq) < MaxItems
    /\ queue' = Append(queue, NewItem(Len(enq) + 1, cr.id, cr.op,
                                      IF cr.op = "create" THEN now ELSE cr.at))
    /\ enq' = Append(enq, cr.id)
    /\ cr' = IdleCrud
    /\ UNCHANGED <<retryLimit, batchSize, now, tasks, sy, cycles, att, applied>>

\* The CRUD request's INSERT INTO sync_queue fails: the handler throws.
EnqueueFails ==
    /\ cr.pc = "enqueue"
    /\ enq' = Failed(enq)
    /\ cr' = IdleCrud
    /\ UNCHANGED <<retryLimit, batchSize, now, tasks, queue, sy, cycles, att, applied>>

\* ------------------------------------------------------------- POST /sync
\* The request arrives and checkConnectivity's probe is sent; at most limit
\* requests are ever accepted.
TriggerUpTo(w, limit) ==
    /\ sy[w].pc = "idle"
    /\ cycles < limit
    /\ cycles' = cycles + 1
    /\ sy' = [sy EXCEPT ![w].pc = "probe"]
    /\ UNCHANGED <<retryLimit, batchSize, now, tasks, queue, enq, cr, att, applied>>

Trigger(w) == TriggerUpTo(w, MaxSyncs)

\* The probe answers: sync() starts with its read of the queue, or 503.
Probe(w) ==
    /\ sy[w].pc = "probe"
    /\ \E online \in BOOLEAN :
          sy' = [sy EXCEPT ![w].pc = IF online THEN "read" ELSE "refused"]
    /\ UNCHANGED <<retryLimit, batchSize, now, tasks, queue, enq, cr, cycles, att, applied>>

\* sync lines 25-40: the due items are read and cut into batches.
ReadQueue(w) ==
    /\ sy[w].pc = "read"
    /\ LET items == DueItems(queue, retryLimit)
       IN  sy' = [sy EXCEPT ![w] =
                    IF items = <<>>
                    THEN [@ EXCEPT !.pc = "done"]
                    ELSE [@ EXCEPT !.pc = "post", !.items = items, !.bi = 1]]
    /\ UNCHANGED <<retryLimit, batchSize, now, tasks, queue, enq, cr, cycles, att, applied>>

\* The transport requests that carried each item, after this batch is posted.
Attempted(s) ==
    [i \in ItemIds |->
        att[i] + IF \E r \in Range(Batch(s)) : r.id = i THEN 1 ELSE 0]

\* processBatch line 106 throws: timeout, network error or non-2xx status.
PostFails(w) ==
    /\ sy[w].pc = "post"
    /\ att' = Attempted(sy[w])
    /\ sy' = [sy EXCEPT ![w] = Catch([@ EXCEPT !.calls = @ + 1], NetworkError)]
    /\ UNCHANGED <<retryLimit, batchSize, now, tasks, queue, enq, cr, cycles, applied>>

\* processBatch line 106 returns one result per item of the batch, each with a
\* status the remote may answer.
PostResponds(w, answers) ==
    /\ sy[w].pc = "post"
    /\ \E st \in [1..Len(Batch(sy[w])) -> answers] :
          LET batch == Batch(sy[w])
              resp == [i \in 1..Len(batch) |-> Result(batch[i], st[i])]
          IN  /\ sy' = [sy EXCEPT ![w] =
                          ContinueConflicts([@ EXCEPT !.calls = @ + 1,
                                                      !.resp = resp], 1)]
              /\ applied' = applied \cup {batch[i].id : i \in {j \in 1..Len(batch) : st[j] = "success"}}
    /\ att' = Attempted(sy[w])
    /\ UNCHANGED <<retryLimit, batchSize, now, tasks, queue, enq, cr, cycles>>

\* resolveConflict line 132: the local row is read.
CfGet(w) ==
    /\ sy[w].pc = "cf_get"
    /\ LET s == sy[w]
       IN  sy' = [sy EXCEPT ![w] = [s EXCEPT !.pc = "cf_fetch",
                                             !.local = tasks[s.resp[s.k].client_id]]]
    /\ UNCHANGED <<retryLimit, batchSize, now, tasks, queue, enq, cr, cycles, att, applied>>

\* resolveConflict lines 133-146: the remote's version arrives and the winner
\* is picked.  When the remote wins, updateTask(localTask.id, serverTask) is
\* awaited inside resolveConflict ("resolve"); otherwise resolveConflict
\* returns and processBatch line 118 awaits updateTask ("apply").
CfFetch(w) ==
    /\ sy[w].pc = "cf_fetch"
    /\ \E u \in 0..MaxTime, d \in BOOLEAN :
          LET s == sy[w]
              remote == [title |-> "S", updated_at |-> u, is_deleted |-> d,
                         sync_status |-> "synced"]
          IN  sy' = [sy EXCEPT ![w] =
                       [@ EXCEPT !.pc = "ut_upd", !.remote = remote,
                                 !.resolved = Resolve(s.local, remote),
                                 !.phase = IF LocalWins(s.local, remote)
                                           THEN "apply" ELSE "resolve"]]
    /\ UNCHANGED <<retryLimit, batchSize, now, tasks, queue, enq, cr, cycles, att, applied>>

\* resolveConflict line 133 throws: the fetch of the remote's version fails.
CfFetchFails(w) ==
    /\ sy[w].pc = "cf_fetch"
    /\ sy' = [sy EXCEPT ![w] = Catch(@, NetworkError)]
    /\ UNCHANGED <<retryLimit, batchSize, now, tasks, queue, enq, cr, cycles, att, applied>>

\* updateTask has returned to resolveConflict (which returns the remote's
\* version to processBatch, line 118) or to processBatch (lines 119-120: the
\* result becomes a 'success' carrying the resolved task).
AfterUpdateTask(s) ==
    IF s.phase = "resolve"
    THEN [s EXCEPT !.pc = "ut_upd", !.phase = "apply"]
    ELSE ContinueConflicts(
            [s EXCEPT !.resp[s.k].status = "success"],
            s.k + 1)

\* updateTask called for a conflict, up to its UPDATE tasks; null when the row
\* is soft-deleted.
UtUpdate(w) ==
    /\ sy[w].pc = "ut_upd"
    /\ LET s == sy[w]
           id == s.resp[s.k].client_id
           title == IF s.phase = "resolve" THEN s.remote.title ELSE s.resolved.title
       IN  IF Updatable(tasks, id)
           THEN /\ tasks' = UpdateRow(tasks, id, title, now)
                /\ sy' = [sy EXCEPT ![w] = [@ EXCEPT !.pc = "ut_ins", !.at = now]]
           ELSE /\ tasks' = tasks
                /\ sy' = [sy EXCEPT ![w] = AfterUpdateTask(s)]
    /\ UNCHANGED <<retryLimit, batchSize, now, queue, enq, cr, cycles, att, applied>>

\* updateTask called for a conflict: its INSERT INTO sync_queue.
UtInsert(w) ==
    /\ sy[w].pc = "ut_ins"
    /\ Len(enq) < MaxItems
    /\ LET s == sy[w]
           id == s.resp[s.k].client_id
       IN  /\ queue' = Append(queue, NewItem(Len(enq) + 1, id, "update", s.at))
           /\ enq' = Append(enq, id)
           /\ sy' = [sy EXCEPT ![w] = AfterUpdateTask([s EXCEPT !.at = 0])]
    /\ UNCHANGED <<retryLimit, batchSize, now, tasks, cr, cycles, att, applied>>

\* updateTask called for a conflict: its INSERT fails, updateTask throws.
UtInsertFails(w) ==
    /\ sy[w].pc = "ut_ins"
    /\ enq' = Failed(enq)
    /\ sy' = [sy EXCEPT ![w] = Catch([@ EXCEPT !.at = 0], UpdateFailed)]
    /\ UNCHANGED <<retryLimit, batchSize, now, tasks, queue, cr, cycles, att, applied>>

\* updateSyncStatus line 158: UPDATE tasks for a 'success' result.
UsUpdate(w) ==
    /\ sy[w].pc = "us_update"
    /\ tasks' = MarkSynced(tasks, sy[w].resp[sy[w].k].client_id)
    /\ sy' = [sy EXCEPT ![w].pc = "us_delete"]
    /\ UNCHANGED <<retryLimit, batchSize, now, queue, enq, cr, cycles, att, applied>>

\* updateSyncStatus line 163: DELETE FROM sync_queue, then sync counts the item.
UsDelete(w) ==
    /\ sy[w].pc = "us_delete"
    /\ queue' = DeleteSynced(queue, sy[w].resp[sy[w].k])
    /\ sy' = [sy EXCEPT ![w] = ContinueResults([@ EXCEPT !.synced = @ + 1], @.k + 1)]
    /\ UNCHANGED <<retryLimit, batchSize, now, tasks, enq, cr, cycles, att, applied>>

\* sync lines 61-68: handleSyncError for item k of the failed batch, then the
\* failure is pushed to errors.
HandleSyncError(w) ==
    /\ sy[w].pc = "hse"
    /\ LET s == sy[w]
           item == Batch(s)[s.k]
           t == [s EXCEPT !.errors = Append(@, [task_id |-> item.task_id,
                                                error |-> s.err])]
       IN  /\ tasks' = MarkError(tasks, item, retryLimit)
           /\ queue' = RecordFailure(queue, item, s.err)
           /\ sy' = [sy EXCEPT ![w] = IF s.k < Len(Batch(s))
                                      THEN [t EXCEPT !.k = s.k + 1]
                                      ELSE NextBatch(t)]
    /\ UNCHANGED <<retryLimit, batchSize, now, enq, cr, cycles, att, applied>>

\* The route without the return after its 503: sync() runs all the same.
ReturnFallsThrough(w) ==
    /\ sy[w].pc \in {"done", "refused"}
    /\ sy' = [sy EXCEPT ![w] = IF sy[w].pc = "refused"
                               THEN [@ EXCEPT !.pc = "read"]
                               ELSE IdleSync]
    /\ UNCHANGED <<retryLimit, batchSize, now, tasks, queue, enq, cr, cycles, att, applied>>

\* The route answers: the SyncResult, or 503 when the probe failed.
Return(w) ==
    /\ sy[w].pc \in {"done", "refused"}
    /\ sy' = [sy EXCEPT ![w] = IdleSync]
    /\ UNCHANGED <<retryLimit, batchSize, now, tasks, queue, enq, cr, cycles, att, applied>>

\* -------------------------------------------------------- specifications
Crud ==
    \/ CreateTask
    \/ \E id \in TaskIds : UpdateTask(id)
    \/ \E id \in TaskIds : DeleteTask(id)

\* A step of POST /sync request w, the remote answering with the given statuses.
SyncStep(w, answers) ==
    \/ Probe(w)
    \/ ReadQueue(w)
    \/ PostFails(w)
    \/ PostResponds(w, answers)
    \/ CfGet(w)
    \/ CfFetch(w)
    \/ CfFetchFails(w)
    \/ UtUpdate(w)
    \/ UtInsert(w)
    \/ UtInsertFails(w)
    \/ UsUpdate(w)
    \/ UsDelete(w)
    \/ HandleSyncError(w)
    \/ Return(w)

\* One POST /sync at a time, with CRUD requests served while it runs.
Next ==
    \/ Tick
    \/ Crud
    \/ Enqueue
    \/ EnqueueFails
    \/ Trigger(1)
    \/ SyncStep(1, Statuses)

Spec == Init /\ [][Next]_vars

\* Requests are served one at a time.
NextSeq ==
    \/ Tick
    \/ Quiet /\ Crud
    \/ Enqueue
    \/ EnqueueFails
    \/ Quiet /\ Trigger(1)
    \/ SyncStep(1, Statuses)

SpecSeq == Init /\ [][NextSeq]_vars

\* Requests are served one at a time, the local database takes every write,
\* and the batch endpoint is unreachable: every transport request fails.
NextDown ==
    \/ Tick
    \/ Quiet /\ Crud
    \/ Enqueue
    \/ Quiet /\ Trigger(1)
    \/ Probe(1)
    \/ ReadQueue(1)
    \/ PostFails(1)
    \/ HandleSyncError(1)
    \/ Return(1)

SpecDown == Init /\ [][NextDown]_vars

\* Requests are served one at a time, the local database takes every write,
\* and the remote rejects every item it is sent with an item-level 'error'.
NextReject ==
    \/ Tick
    \/ Quiet /\ Crud
    \/ Enqueue
    \/ Quiet /\ Trigger(1)
    \/ Probe(1)
    \/ ReadQueue(1)
    \/ PostResponds(1, {"error"})
    \/ Return(1)

SpecReject == Init /\ [][NextReject]_vars

\* Requests are served one at a time, the local database takes every CRUD
\* write, and the remote answers every item it is sent with a 'conflict'.
NextConflict ==
    \/ Tick
    \/ Quiet /\ Crud
    \/ Enqueue
    \/ Quiet /\ Trigger(1)
    \/ Probe(1)
    \/ ReadQueue(1)
    \/ PostResponds(1, {"conflict"})
    \/ CfGet(1)
    \/ CfFetch(1)
    \/ CfFetchFails(1)
    \/ UtUpdate(1)
    \/ UtInsert(1)
    \/ UtInsertFails(1)
    \/ UsUpdate(1)
    \/ UsDelete(1)
    \/ HandleSyncError(1)
    \/ Return(1)

SpecConflict == Init /\ [][NextConflict]_vars

\* POST /sync requests in flight together; CRUD requests are served between
\* them, and the remote answers 'success' or 'error' or is unreachable.
NextConc ==
    \/ Quiet /\ Crud
    \/ Enqueue
    \/ \E w \in Workers : Trigger(w)
    \/ \E w \in Workers :
          \/ Probe(w)
          \/ ReadQueue(w)
          \/ PostFails(w)
          \/ PostResponds(w, {"success", "error"})
          \/ UsUpdate(w)
          \/ UsDelete(w)
          \/ HandleSyncError(w)
          \/ Return(w)

SpecConc == Init /\ [][NextConc]_vars

\* Tasks are created while no sync runs, the local database takes every
\* write, and the remote answers every item it is sent with 'success'.
NextDrain ==
    \/ Tick
    \/ Quiet /\ CreateTask
    \/ Enqueue
    \/ Quiet /\ Trigger(1)
    \/ Probe(1)
    \/ ReadQueue(1)
    \/ PostResponds(1, {"success"})
    \/ UsUpdate(1)
    \/ UsDelete(1)
    \/ Return(1)

SpecDrain == Init /\ [][NextDrain]_vars

\* POST /sync requests in flight together while the batch endpoint is
\* unreachable; tasks are created between them.
NextRace ==
    \/ Quiet /\ CreateTask
    \/ Enqueue
    \/ \E w \in Workers : TriggerUpTo(w, MaxRaceSyncs)
    \/ \E w \in Workers :
          \/ Probe(w)
          \/ ReadQueue(w)
          \/ PostFails(w)
          \/ HandleSyncError(w)
          \/ Return(w)

SpecRace == Init /\ [][NextRace]_vars

\* ----------------------------------------------------------------- claims
\* The items the finished sync cycle of request w read as due.
Cycle(w) == Range(sy[w].items)

\* sync() is running for request w.
InSync(w) == sy[w].pc \notin {"idle", "probe", "refused"}

\* C1: retry accounting.  With the batch endpoint unreachable, when a sync
\* cycle finishes every item it sent is still in the queue, its retry_count is
\* the number of cycles that sent it, and once that number is retryLimit the
\* owning task's sync_status is 'error'.
C1_RetryAccounting ==
    \A w \in Workers :
        sy[w].pc = "done" =>
            \A item \in Cycle(w) :
                /\ InQueue(queue, item.id)
                /\ RowOf(queue, item.id).retry_count = att[item.id]
                /\ att[item.id] = retryLimit =>
                      tasks[item.task_id].sync_status = "error"

\* A cycle has finished in which an item failed for the retryLimit-th time,
\* with a limit above one.
C1_Witness ==
    \E w \in Workers :
        /\ sy[w].pc = "done"
        /\ retryLimit > 1
        /\ \E item \in Cycle(w) :
              /\ att[item.id] = retryLimit
              /\ InQueue(queue, item.id)
              /\ RowOf(queue, item.id).retry_count = retryLimit

\* C2: a dead-lettered item (retry_count has reached retryLimit) is never
\* removed from the queue by a later step.
C2_DeadLetterRetained ==
    [][\A i \in DOMAIN queue :
          queue[i].retry_count >= retryLimit => InQueue(queue', queue[i].id)]_vars

\* C3: a per-item 'error' result records a failure.  With the remote
\* rejecting every item, when a sync cycle finishes every item it sent has its
\* retry_count incremented by one and last_error set to the returned message.
C3_ItemErrorRecorded ==
    \A w \in Workers :
        sy[w].pc = "done" =>
            \A item \in Cycle(w) :
                /\ InQueue(queue, item.id)
                /\ RowOf(queue, item.id).retry_count = item.retry_count + 1
                /\ RowOf(queue, item.id).last_error = ItemRejected

\* C4: an item the remote rejects on every cycle is sent to the transport at
\* most retryLimit times.
C4_RejectedSentAtMostLimit ==
    \A i \in ItemIds : att[i] <= retryLimit

\* C5: at most one sync() invocation is in flight at a time.
C5_SingleFlight ==
    Cardinality({w \in Workers : InSync(w)}) <= 1

\* C6: recording success for a queue item removes exactly that item; every
\* other row of the queue is left as it was.
C6_SuccessRemovesOneItem ==
    [][\A w \in Workers :
          (sy[w].pc = "us_delete" /\ sy'[w] # sy[w]) =>
              queue' = SelectSeq(queue,
                          LAMBDA r : r.id # Batch(sy[w])[sy[w].k].id)]_vars

\* C7: per-task ordering.  An operation the remote has reported 'success' for
\* is never one enqueued after an operation of the same task that the remote
\* has not reported 'success' for.
C7_PerTaskOrder ==
    \A j \in applied :
        \A i \in 1..(j - 1) : enq[i] = enq[j] => i \in applied

\* resolveConflict has picked the winner for request w.
Resolved(w) == sy[w].pc \in {"ut_upd", "ut_ins"}

\* C8: conflict resolution, strict case.  The side with the strictly later
\* updated_at is returned unchanged.
C8_StrictlyLaterWins ==
    \A w \in Workers :
        Resolved(w) =>
            /\ sy[w].local.updated_at > sy[w].remote.updated_at =>
                  sy[w].resolved = sy[w].local
            /\ sy[w].remote.updated_at > sy[w].local.updated_at =>
                  sy[w].resolved = sy[w].remote

\* The remote's version was strictly later and has been picked.
C8_Witness ==
    \E w \in Workers :
        /\ Resolved(w)
        /\ sy[w].remote.updated_at > sy[w].local.updated_at
        /\ sy[w].resolved = sy[w].remote
        /\ sy[w].resolved # sy[w].local

\* The pending operation of each side of the conflict request w resolves: the
\* queue item's operation locally, a delete for a remote version that is
\* deleted and an update otherwise.
LocalOp(w) == Batch(sy[w])[sy[w].k].operation
RemoteOp(w) == IF sy[w].remote.is_deleted THEN "delete" ELSE "update"

\* C9: conflict resolution, tie case.  With equal updated_at the winner is
\* picked by operation priority delete > update > create: the one side that
\* is a delete wins, otherwise update beats create.
C9_TieBreakByOperation ==
    \A w \in Workers :
        (Resolved(w) /\ sy[w].local.updated_at = sy[w].remote.updated_at) =>
            /\ (LocalOp(w) = "delete" /\ RemoteOp(w) # "delete") =>
                  sy[w].resolved = sy[w].local
            /\ (RemoteOp(w) = "delete" /\ LocalOp(w) # "delete") =>
                  sy[w].resolved = sy[w].remote
            /\ (LocalOp(w) = "create" /\ RemoteOp(w) = "update") =>
                  sy[w].resolved = sy[w].remote

\* resolveConflict is running for request w.
InResolve(w) ==
    \/ sy[w].pc \in {"cf_get", "cf_fetch"}
    \/ sy[w].pc \in {"ut_upd", "ut_ins"} /\ sy[w].phase = "resolve"

\* C10: resolve is pure.  No step of resolveConflict writes the task store or
\* the queue.
C10_ResolveIsPure ==
    [][\A w \in Workers :
          (InResolve(w) /\ sy'[w] # sy[w]) =>
              (tasks' = tasks /\ queue' = queue)]_vars

\* The batch request w posted has failed at the transport and the catch of
\* sync is handling its items.
BatchFailed(w) == sy[w].pc = "hse" /\ sy[w].resp = <<>>

\* C11: a transport-level failure of a batch is a failure of every item of
\* the batch.  The catch adds the batch length to failed_items, and when it
\* has handled an item of the batch that item is in the queue with its
\* retry_count one above the count sync read and last_error set to the
\* transport's message.
C11_BatchFailureFailsEveryItem ==
    [][\A w \in Workers :
          /\ (sy[w].pc = "post" /\ BatchFailed(w)') =>
                sy'[w].failed = sy[w].failed + Len(Batch(sy[w]))
          /\ (BatchFailed(w) /\ sy'[w] # sy[w]) =>
                LET item == Batch(sy[w])[sy[w].k]
                IN  /\ InQueue(queue', item.id)
                    /\ RowOf(queue', item.id).retry_count = item.retry_count + 1
                    /\ RowOf(queue', item.id).last_error = sy[w].err]_vars

\* The catch of sync is handling the batch of request w after processBatch
\* threw with the remote's per-item results in hand.
CaughtAfterResponse(w) == sy[w].pc = "hse" /\ sy[w].resp # <<>>

\* C12: per-item results are interpreted individually.  When the transport
\* has returned per-item statuses, an item of the batch that the remote
\* reported as 'success' is never handled as failed because of another item
\* of the batch.
C12_BadItemFailsAlone ==
    \A w \in Workers :
        CaughtAfterResponse(w) =>
            \A i \in DOMAIN sy[w].resp :
                ~(/\ sy[w].resp[i].status = "success"
                  /\ Batch(sy[w])[i].id \in applied)

\* C13: enqueue-then-drain round trip.  While no sync has run, the tasks
\* created have one queue item each, a 'create' with retry_count 0; when a
\* sync() whose items the remote all answered with 'success' has finished,
\* the queue is empty and every task is 'synced'.
C13_EnqueueThenDrain ==
    /\ (cycles = 0 /\ cr.pc = "idle") =>
          /\ Len(queue) = Len(tasks)
          /\ \A t \in DOMAIN tasks :
                /\ Len(TaskRows(queue, t)) = 1
                /\ TaskRows(queue, t)[1].operation = "create"
                /\ TaskRows(queue, t)[1].retry_count = 0
    /\ \A w \in Workers :
          (sy[w].pc = "done" /\ sy[w].items # <<>>) =>
              /\ queue = <<>>
              /\ \A t \in DOMAIN tasks : tasks[t].sync_status = "synced"

\* A sync() has drained a queue of MaxTasks items.
C13_Witness ==
    \E w \in Workers :
        /\ sy[w].pc = "done"
        /\ Len(sy[w].items) = MaxTasks
        /\ sy[w].synced = MaxTasks
        /\ Len(tasks) = MaxTasks
        /\ queue = <<>>

\* ceil(q / b) for b >= 1.
Ceil(q, b) == (q + b - 1) \div b

\* C14: batch partitioning.  One sync() over Q due items with batch size B
\* posts its batches one after another in the order of the items, oldest
\* first, each of 1..B items; when it returns it has made ceil(Q/B) transport
\* calls and synced_items + failed_items is Q.
C14_BatchPartitioning ==
    \A w \in Workers :
        LET s == sy[w]
            Q == Len(s.items)
        IN  /\ \A i, j \in DOMAIN s.items :
                  i < j => s.items[i].created_at <= s.items[j].created_at
            /\ s.pc = "post" =>
                  /\ s.bi = s.calls * batchSize + 1
                  /\ Len(Batch(s)) \in 1..batchSize
            /\ s.pc = "done" =>
                  /\ s.calls = Ceil(Q, batchSize)
                  /\ s.synced + s.failed = Q

\* A sync() over three due items with batch size two has returned.
C14_Witness ==
    \E w \in Workers :
        /\ sy[w].pc = "done"
        /\ Len(sy[w].items) = 3
        /\ batchSize = 2
        /\ sy[w].calls = 2
        /\ sy[w].synced + sy[w].failed = 3

\* processBatch is applying the winner of a conflict for request w (line 118).
Applying(w) == sy[w].pc \in {"ut_upd", "ut_ins"} /\ sy[w].phase = "apply"

\* C15: a 'conflict' result is resolved, the winner is applied to the task
\* store and the item is then treated as a success.  With the remote
\* answering every item with 'conflict': when processBatch has applied the
\* winner, the task's row carries the winner's title and deletion flag; and
\* when sync has recorded the result, synced_items has grown by one,
\* failed_items has not, the queue item is gone and the task is 'synced'.
C15_ConflictAppliedThenSynced ==
    [][\A w \in Workers :
          LET s == sy[w]
              id == s.resp[s.k].client_id
          IN  /\ (Applying(w) /\ sy'[w] # s /\ ~Applying(w)'
                     /\ sy'[w].pc # "hse") =>
                    /\ tasks'[id].title = s.resolved.title
                    /\ tasks'[id].is_deleted = s.resolved.is_deleted
              /\ (s.pc = "us_delete" /\ sy'[w] # s) =>
                    /\ sy'[w].synced = s.synced + 1
                    /\ sy'[w].failed = s.failed
                    /\ ~InQueue(queue', Batch(s)[s.k].id)
                    /\ tasks'[id].sync_status = "synced"]_vars

HalfWritten == cr.pc = "enqueue"

\* C17: atomic enqueue.  A CRUD request that ends with its write to the task
\* store in place has appended its queue item, and no sync() reads the queue
\* between the write to the task store and the insert of the queue item.
C17_AtomicEnqueue ==
    [][/\ (HalfWritten /\ ~HalfWritten' /\ tasks' = tasks) =>
             /\ Len(queue') = Len(queue) + 1
             /\ queue'[Len(queue')].task_id = cr.id
             /\ queue'[Len(queue')].operation = cr.op
       /\ \A w \in Workers :
             (sy[w].pc = "read" /\ sy'[w] # sy[w]) => ~HalfWritten]_vars

\* No row of the queue has retries left.
NothingDue == \A i \in DOMAIN queue : queue[i].retry_count >= retryLimit

\* C18: sync() with no due items is a no-op.  When sync() reads a queue in
\* which nothing is due, it returns at once with synced_items 0,
\* failed_items 0 and no errors, having made no transport call and having
\* left the task store and the queue as they were.
C18_NothingDueIsNoOp ==
    [][\A w \in Workers :
          (sy[w].pc = "read" /\ sy'[w] # sy[w] /\ NothingDue) =>
              /\ sy'[w].pc = "done"
              /\ sy'[w].synced = 0 /\ sy'[w].failed = 0
              /\ sy'[w].errors = <<>>
              /\ sy'[w].calls = 0 /\ att' = att
              /\ tasks' = tasks /\ queue' = queue]_vars

\* A sync() has returned without a transport call from a queue that holds
\* only dead-lettered rows.
C18_Witness ==
    \E w \in Workers :
        /\ sy[w].pc = "done"
        /\ sy[w].items = <<>>
        /\ sy[w].calls = 0
        /\ queue # <<>>
        /\ NothingDue

\* Row r of the queue is dead-lettered: its retry_count has reached retryLimit.
DeadLettered(r) == r.retry_count >= retryLimit

\* C19: dead-lettered items are dormant.  No step of a sync() sends a
\* dead-lettered row to the transport, and while the row is in the queue its
\* retry_count and last_error stay as they are.
C19_DeadLetterDormant ==
    [][\A i \in DOMAIN queue :
          DeadLettered(queue[i]) =>
              /\ att'[queue[i].id] = att[queue[i].id]
              /\ InQueue(queue', queue[i].id) =>
                    /\ RowOf(queue', queue[i].id).retry_count = queue[i].retry_count
                    /\ RowOf(queue', queue[i].id).last_error = queue[i].last_error]_vars

\* C20: resolution is idempotent.  For every pair resolveConflict has
\* resolved, resolving the pair again picks the winner it returned, and
\* resolving that winner against the local or against the remote input picks
\* that winner again.
C20_ResolveIdempotent ==
    \A w \in Workers :
        Resolved(w) =>
            /\ Resolve(sy[w].local, sy[w].remote) = sy[w].resolved
            /\ Resolve(sy[w].resolved, sy[w].local) = sy[w].resolved
            /\ Resolve(sy[w].resolved, sy[w].remote) = sy[w].resolved

\* A tie between two different versions has been resolved.
C20_Witness ==
    \E w \in Workers :
        /\ Resolved(w)
        /\ sy[w].local.updated_at = sy[w].remote.updated_at
        /\ sy[w].local # sy[w].remote
        /\ sy[w].resolved = sy[w].local

\* checkConnectivity has returned false for request w.
Refused(w) == sy[w].pc = "refused"

\* C21: a failed connectivity probe does not alter queue state.  The step
\* that finds the remote unreachable and the 503 answer that follows leave
\* the task store and the queue as they were and send nothing to the
\* transport, and the refused request ends without sync() having run.
C21_RefusedSyncTouchesNothing ==
    [][\A w \in Workers :
          /\ (sy[w].pc = "probe" /\ Refused(w)') =>
                tasks' = tasks /\ queue' = queue /\ att' = att
          /\ (Refused(w) /\ sy'[w] # sy[w]) =>
                /\ sy'[w] = IdleSync
                /\ tasks' = tasks /\ queue' = queue /\ att' = att]_vars

\* A POST /sync has been refused while the queue holds a due item.
C21_Witness ==
    \E w \in Workers :
        /\ Refused(w)
        /\ queue # <<>>
        /\ ~NothingDue
        /\ sy[w].calls = 0

\* C22: the success flag of the result sync() returns is true exactly when
\* its failed_items is 0, whatever the batches' transport outcomes and the
\* items' statuses were.
C22_SuccessIffNoFailure ==
    \A w \in Workers :
        sy[w].pc = "done" =>
            (SyncResult(sy[w]).success <=> SyncResult(sy[w]).failed_items = 0)

\* A sync() returns with items synced and items failed: success is false.
C22_Witness ==
    \E w \in Workers :
        /\ sy[w].pc = "done"
        /\ SyncResult(sy[w]).synced_items > 0
        /\ SyncResult(sy[w]).failed_items > 0
        /\ ~SyncResult(sy[w]).success

\* Request w is a sync() cycle that has read its due items.
HasRead(w) == InSync(w) /\ sy[w].pc # "read"

\* The ids of the queue rows the cycle of request w read.
Snapshot(w) == {r.id : r \in Cycle(w)}

\* C23: no mutation is lost to a concurrent sync.  A step of a sync() cycle
\* that has read its due items removes no queue row that was enqueued after
\* that read, and when the cycle returns no task is 'synced' that has a
\* mutation which was never sent to the transport.
C23_NoMutationLost ==
    [][\A w \in Workers :
          (HasRead(w) /\ sy'[w] # sy[w]) =>
              /\ \A i \in DOMAIN queue :
                    queue[i].id \notin Snapshot(w) =>
                        InQueue(queue', queue[i].id)
              /\ sy'[w].pc = "done" =>
                    \A i \in DOMAIN enq' :
                        (enq'[i] # 0 /\ att'[i] = 0) =>
                            tasks'[enq'[i]].sync_status # "synced"]_vars

\* C24: every queue row's retry_count is within 0..retryLimit, and the
\* retry_count of a row that stays in the queue never decreases.
C24_RetryCountBoundedMonotonic ==
    [][/\ \A i \in DOMAIN queue : queue[i].retry_count \in 0..retryLimit
       /\ \A i \in DOMAIN queue' : queue'[i].retry_count \in 0..retryLimit
       /\ \A i \in DOMAIN queue :
             InQueue(queue', queue[i].id) =>
                 RowOf(queue', queue[i].id).retry_count >= queue[i].retry_count]_vars

\* Task t has a queue row with retries left.
HasDueItem(t) ==
    \E i \in DOMAIN queue :
        queue[i].task_id = t /\ queue[i].retry_count < retryLimit

\* C25: whenever no CRUD request and no sync() is in progress, every task
\* whose sync_status is 'pending' has a queue item with retry_count below
\* retryLimit.
C25_PendingTaskHasDueItem ==
    Quiet =>
        \A t \in DOMAIN tasks :
            tasks[t].sync_status = "pending" => HasDueItem(t)

====
